---- MODULE Spec2Model ----
(***************************************************************************)
(* Model of DataCollector.parser (src/collector.py): the resolution of     *)
(* colspan/rowspan cells of each ".wikitable" into rows (parse_table), the *)
(* padding of the rows to one width and their export, one file per table.  *)
(*                                                                         *)
(* The document is read as the code reads it: table by table, row by row,  *)
(* cell by cell.  What the next table, row or cell is, is chosen when the  *)
(* loop reaches it.                                                        *)
(***************************************************************************)
EXTENDS Integers, Sequences, FiniteSets, TLC

(* ---------------------------------------------------------------- bounds *)
\* tables selected by soup.select(".wikitable")
MaxTables == 2
\* <tr> elements of one table (rows without cells included)
MaxRows == 3
\* <th>/<td> cells of the whole document
MaxCells == 4
\* cells whose content lines 91-114 extract in one run
MaxImageCells == 1
\* entries of self.collected_images when download_images is called
MaxDownloads == 2
\* times one URL answers 429 before it answers anything else
Max429 == 2
\* parts of the text of a "Stratagem Codes" cell
MaxCode == 2
\* events one call of pygame.event.get() delivers
MaxBatch == 2
\* calls of ImageLoader.load with an SVG file
MaxLoads == 3
\* keys typed while the key reader is in use
MaxKeys == 3

(* ---------------------------------------------------------------- inputs *)
\* A span attribute as cell.get(name, 1) finds it: absent, a string int()
\* accepts (kind "int", its value n), or a string int() rejects.
Absent == [kind |-> "absent", n |-> 0]
Malformed == [kind |-> "bad", n |-> 0]
Num(v) == [kind |-> "int", n |-> v]

\* colspan: absent (read as 1), unreadable, negative, more than one column
ColspanAttrs == {Absent, Malformed, Num(-1), Num(2)}
\* rowspan: absent (read as 1), unreadable, zero, three rows
RowspanAttrs == {Absent, Malformed, Num(0), Num(3)}

\* The text of the n-th cell of table idx.  No cell of the document repeats
\* the text of another one, so a value found in a resolved row names the
\* cell it came from.
Texts ==
  << <<"a1", "a2", "a3", "a4", "a5", "a6">>,
     <<"b1", "b2", "b3", "b4", "b5", "b6">>,
     <<"c1", "c2", "c3", "c4", "c5", "c6">>,
     <<"d1", "d2", "d3", "d4", "d5", "d6">> >>
CellText(t, n) == Texts[t + 1][n]

VARIABLES
  pc,          \* where parser stands
  idx,         \* enumerate(tables): index of the table being read
  ncells,      \* cells of the document read so far
  srcRows,     \* <tr> elements of the current table read so far
  tcells,      \* cells of the current table read so far
  rowFirst,    \* number, within the table, of the first cell of the current row
  cell,        \* the cell the loop of line 87 is at: [text, colspan, rowspan]
  first,       \* the first cell of the current table: [text, colspan, rowspan]
  rows,        \* parse_table: rows
  pending,     \* parse_table: pending, col_index -> [val, rem]
  out,         \* parse_table: out
  col,         \* parse_table: col
  trailEntry,  \* col, len(out) and pending when line 125 is reached
  origin,      \* col_index -> [row, span]: the resolved row and the rowspan of
               \* the cell that registered pending[col_index]
  cellRows,    \* <tr> elements with cells of the current table read so far
  carried,     \* a table was left while a span was still pending
  written,     \* rows handed to writer.writerow for the table last exported
  files,       \* output file name -> index of the table written to it
  all_rows,    \* parser: all_rows, table index -> len(rows)
  header0,     \* the first resolved row of the first table
  epc,         \* where the extraction of a cell's content (lines 91-114) stands
  ecells,      \* cells whose content has been extracted so far
  cellImgs,    \* the <img> elements of the cell, in document order
  imgs,        \* parse_table: imgs, the <img> elements the selectors matched
  plain,       \* cell.get_text(" ", strip=True)
  cell_text,   \* parse_table: cell_text
  collected_images,  \* self.collected_images
  csv_path,    \* parser: csv_path
  dpc,         \* where download_images stands
  dimg,        \* position in self.collected_images of the loop of line 179
  attempt,     \* download_images: attempt
  outcome,     \* how the last requests.get / save of lines 232-240 ended
  left429,     \* 429 answers the URL of the current image has yet to give
  saved,       \* alt texts of the images saved by this call
  gpc,         \* where the start of the game (main.py) stands
  game_rows,   \* stratagemHero: self.all_rows
  total_rows,  \* stratagemHero: self.total_rows
  stratLen,    \* len(self.stratagems_df)
  missionLen,  \* len(self.mission_df)
  qindex,      \* the index get_stratagem_table_entry was last called with
  entry,       \* what that call gave
  mpc,         \* where stratagemHero.run stands
  full_code,   \* run: the "Stratagem Codes" entry of the current stratagem
  split_code,  \* run: split_code
  arrow_code,  \* run: arrow_code, glyph by glyph
  normal_code, \* run: normal_code
  completed_indices,  \* run: completed_indices
  update,      \* run: update
  running,     \* run: running
  nbatch,      \* events of the batch of line 333 not handled yet
  event,       \* the event handled last
  loaded,      \* the step taken last called load_new_stratagem
  spc,         \* ImageLoader: made or not
  cache,       \* SVG names whose PNG is in self.cache_dir
  installed,   \* find_inkscape() finds Inkscape on this machine
  inkscape_path,  \* ImageLoader: self.inkscape_path
  runs,        \* SVG name -> times the converter was run for it
  made,        \* SVG names whose PNG a run of the converter produced
  nloads,      \* calls of load so far
  png,         \* how the last call of _convert_svg_to_png ended
  kpc,         \* where the with-block of the key reader stands
  term,        \* the attributes of the terminal
  original_settings,  \* NonBlockingKeyReader: self.original_settings
  stdin,       \* keys typed and not read yet
  typed,       \* keys typed so far
  keyRead,     \* what read_key returned last
  left         \* how the with-block was left

vars == <<pc, idx, ncells, srcRows, tcells, rowFirst, cell, first, rows, pending, out,
          col, trailEntry, origin, cellRows, carried, written, files, all_rows,
          header0, epc, ecells, cellImgs, imgs, plain, cell_text,
          collected_images, csv_path, dpc, dimg, attempt, outcome, left429, saved,
          gpc, game_rows, total_rows, stratLen, missionLen, qindex, entry,
          mpc, full_code, split_code, arrow_code, normal_code, completed_indices,
          update, running, nbatch, event, loaded,
          spc, cache, installed, inkscape_path, runs, made, nloads, png,
          kpc, term, original_settings, stdin, typed, keyRead, left>>

\* The variables of download_images
dlvars == <<dpc, dimg, attempt, outcome, left429, saved>>

\* The variables of the start of the game and of get_stratagem_table_entry
entryvars == <<gpc, game_rows, total_rows, stratLen, missionLen, qindex, entry>>

\* The variables of stratagemHero.run
gamevars == <<mpc, full_code, split_code, arrow_code, normal_code, completed_indices,
              update, running, nbatch, event, loaded>>

\* The variables of ImageLoader
svgvars == <<spc, cache, installed, inkscape_path, runs, made, nloads, png>>

\* The variables of NonBlockingKeyReader and of the block that uses it
keyvars == <<kpc, term, original_settings, stdin, typed, keyRead, left>>

\* The variables of the components other than parser
components == <<dlvars, entryvars, gamevars, svgvars, keyvars>>

\* The variables of the reading of the tables, rows and span attributes
tablevars == <<pc, idx, ncells, srcRows, tcells, rowFirst, cell, first, rows, pending,
               out, col, trailEntry, origin, cellRows, carried, written, files,
               all_rows>>

\* What the reading of the rows and cells of the tables leaves alone
others == <<header0, epc, ecells, cellImgs, imgs, plain, cell_text, collected_images,
            csv_path, components>>

\* What the extraction of a cell's content leaves alone, the variables of
\* the tables apart
beyond == <<header0, csv_path, components>>

NoCell == [text |-> "", colspan |-> Absent, rowspan |-> Absent]
NoEntry == [set |-> FALSE, col |-> 0, len |-> 0, pending |-> <<>>]
Empty == [k \in {} |-> 0]

(* ------------------------------------------------------------- functions *)
\* int(cell.get(name, 1)) for an attribute int() accepts or that is absent
SpanValue(a) == IF a.kind = "absent" THEN 1 ELSE a.n

\* int() raises ValueError
Raises(a) == a.kind = "bad"

\* ConsumePending with the entry kept when no row is left to fill (the
\* del of line 81 left out)
ConsumePendingKeep(p, c) ==
  [p EXCEPT ![c] = [val |-> p[c].val, rem |-> p[c].rem - 1]]

\* consume_pending_at, the branch taken when col_index is in pending: the
\* pending map after it
ConsumePending(p, c) ==
  IF p[c].rem - 1 <= 0
    THEN [k \in DOMAIN p \ {c} |-> p[k]]
    ELSE [p EXCEPT ![c] = [val |-> p[c].val, rem |-> p[c].rem - 1]]

\* lines 119-122: the pending map after the cell is placed at column c
RegisterPending(p, c, text, colspan, rowspan) ==
  IF rowspan > 1
    THEN [k \in DOMAIN p \cup {c + i : i \in 0 .. colspan - 1} |->
            IF k \in {c + i : i \in 0 .. colspan - 1}
              THEN [val |-> text, rem |-> rowspan - 1]
              ELSE p[k]]
    ELSE p

\* lines 119-120: out after the cell is placed
EmitCell(o, text, colspan) == o \o [i \in 1 .. colspan |-> text]

\* AdvanceCol with the cursor moved by one column whatever the colspan
AdvanceColByOne(c, colspan) == c + 1

\* line 123
AdvanceCol(c, colspan) == c + colspan

RECURSIVE MaxLen(_)
\* max(len(r) for r in rows), rows not empty
MaxLen(rs) ==
  IF Len(rs) = 1 THEN Len(rs[1])
  ELSE LET m == MaxLen(Tail(rs))
       IN IF Len(rs[1]) >= m THEN Len(rs[1]) ELSE m

\* PadRow with the padding left out
PadRowNone(r, max_cols) == r

\* PadRow with the empty strings put before the row's values
PadRowHead(r, max_cols) ==
  IF Len(r) < max_cols THEN [i \in 1 .. max_cols - Len(r) |-> ""] \o r ELSE r

\* PadRow with a single empty string added, whatever is missing
PadRowOne(r, max_cols) ==
  IF Len(r) < max_cols THEN Append(r, "") ELSE r

\* lines 157-158
PadRow(r, max_cols) ==
  IF Len(r) < max_cols THEN r \o [i \in 1 .. max_cols - Len(r) |-> ""] ELSE r

\* lines 152-159: the rows handed to the writer, rows not empty
Normalize(rs) == [i \in 1 .. Len(rs) |-> PadRow(rs[i], MaxLen(rs))]

\* line 42: the default of csv_path
DefaultCsvPath == "recources/codes/stratagems.csv"

\* lines 133-136 and 145
TableNames ==
  <<"table_0.csv", "table_1.csv", "table_2.csv", "table_3.csv", "table_4.csv">>
OutputFilename(i) ==
  IF i = 0 THEN csv_path
  ELSE IF i = 1 THEN "recources/codes/mission_stratagems.csv"
  ELSE TableNames[i + 1]

\* The SVG files load is called with, by base name
SvgNames == {"Up.svg", "Eagle.svg"}

(* ------------------------------------------------------------------ Init *)
Init ==
  /\ pc = "tables"
  /\ idx = 0
  /\ ncells = 0
  /\ srcRows = 0
  /\ tcells = 0
  /\ rowFirst = 0
  /\ cell = NoCell
  /\ first = NoCell
  /\ rows = <<>>
  /\ pending = Empty
  /\ out = <<>>
  /\ col = 0
  /\ trailEntry = NoEntry
  /\ origin = Empty
  /\ cellRows = 0
  /\ carried = FALSE
  /\ written = <<>>
  /\ files = Empty
  /\ all_rows = Empty
  /\ header0 = <<>>
  /\ epc = "cell"
  /\ ecells = 0
  /\ cellImgs = <<>>
  /\ imgs = <<>>
  /\ plain = ""
  /\ cell_text = ""
  /\ collected_images = <<>>
  /\ csv_path = DefaultCsvPath
  /\ dpc = "idle"
  /\ dimg = 0
  /\ attempt = 0
  /\ outcome = "none"
  /\ left429 = 0
  /\ saved = {}
  /\ gpc = "start"
  /\ game_rows = Empty
  /\ total_rows = 0
  /\ stratLen = 0
  /\ missionLen = 0
  /\ qindex = -1
  /\ entry = [kind |-> "none", file |-> "", row |-> 0, col |-> 0]
  /\ mpc = "init"
  /\ full_code = <<>>
  /\ split_code = <<>>
  /\ arrow_code = <<>>
  /\ normal_code = <<>>
  /\ completed_indices = 0
  /\ update = FALSE
  /\ running = FALSE
  /\ nbatch = 0
  /\ event = [type |-> "none", key |-> ""]
  /\ loaded = FALSE
  /\ spc = "init"
  /\ cache = {}
  /\ installed = FALSE
  /\ inkscape_path = "None"
  /\ runs = [n \in SvgNames |-> 0]
  /\ made = {}
  /\ nloads = 0
  /\ png = [kind |-> "none", name |-> ""]
  /\ kpc = "new"
  /\ term = "cooked"
  /\ original_settings = "unset"
  /\ stdin = <<>>
  /\ typed = 0
  /\ keyRead = "unset"
  /\ left = "no"

(* --------------------------------------------------------------- actions *)
\* The cell the loop of line 87 yields next: the (tcells + 1)-th of the table
NextCell(cs, rs) ==
  [text |-> CellText(idx, tcells + 1), colspan |-> cs, rowspan |-> rs]

\* StartTable with the pending map of the table before kept (pending made
\* once, outside parse_table)
StartTableKeepsPending ==
  /\ pc = "tables"
  /\ idx < MaxTables
  /\ pc' = "rows"
  /\ srcRows' = 0
  /\ tcells' = 0
  /\ rowFirst' = 0
  /\ cell' = NoCell
  /\ first' = NoCell
  /\ rows' = <<>>
  /\ out' = <<>>
  /\ col' = 0
  /\ trailEntry' = NoEntry
  /\ written' = <<>>
  /\ cellRows' = 0
  /\ UNCHANGED <<idx, ncells, files, all_rows, pending, origin, carried>>
  /\ UNCHANGED others

\* line 139-140: the next table; parse_table starts with no row and an
\* empty pending map (lines 63-64)
StartTable ==
  /\ pc = "tables"
  /\ idx < MaxTables
  /\ pc' = "rows"
  /\ srcRows' = 0
  /\ tcells' = 0
  /\ rowFirst' = 0
  /\ cell' = NoCell
  /\ first' = NoCell
  /\ rows' = <<>>
  /\ pending' = Empty
  /\ out' = <<>>
  /\ col' = 0
  /\ trailEntry' = NoEntry
  /\ written' = <<>>
  /\ UNCHANGED <<idx, ncells, files, all_rows>>
  /\ origin' = Empty
  /\ cellRows' = 0
  /\ UNCHANGED carried
  /\ UNCHANGED others

\* RowSkip with every pending span charged one row for the row passed over
RowSkipCountsDown ==
  /\ pc = "rows"
  /\ srcRows < MaxRows
  /\ srcRows' = srcRows + 1
  /\ pending' = [k \in {c \in DOMAIN pending : pending[c].rem > 1} |->
                   [val |-> pending[k].val, rem |-> pending[k].rem - 1]]
  /\ UNCHANGED <<pc, idx, ncells, tcells, rowFirst, cell, first, rows, out,
                 col, trailEntry, written, files, all_rows>>
  /\ UNCHANGED <<origin, cellRows, carried>>
  /\ UNCHANGED others

\* RowSkip with an empty row entered for the <tr> passed over
RowSkipAppends ==
  /\ pc = "rows"
  /\ srcRows < MaxRows
  /\ srcRows' = srcRows + 1
  /\ rows' = Append(rows, <<>>)
  /\ UNCHANGED <<pc, idx, ncells, tcells, rowFirst, cell, first, pending, out,
                 col, trailEntry, written, files, all_rows>>
  /\ UNCHANGED <<origin, cellRows, carried>>
  /\ UNCHANGED others

\* lines 65-71: a <tr> without cells is passed over
RowSkip ==
  /\ pc = "rows"
  /\ srcRows < MaxRows
  /\ srcRows' = srcRows + 1
  /\ UNCHANGED <<pc, idx, ncells, tcells, rowFirst, cell, first, rows, pending, out,
                 col, trailEntry, written, files, all_rows>>
  /\ UNCHANGED <<origin, cellRows, carried>>
  /\ UNCHANGED others

\* lines 65-74 and 87: a <tr> with cells; out and col start over and the
\* loop is at the row's first cell
RowStartWith(CS, RS) ==
  /\ pc = "rows"
  /\ srcRows < MaxRows
  /\ ncells < MaxCells
  /\ \E cs \in CS, rs \in RS :
       /\ cell' = NextCell(cs, rs)
       /\ first' = IF tcells = 0 THEN NextCell(cs, rs) ELSE first
  /\ pc' = "cell"
  /\ srcRows' = srcRows + 1
  /\ tcells' = tcells + 1
  /\ rowFirst' = tcells + 1
  /\ ncells' = ncells + 1
  /\ out' = <<>>
  /\ col' = 0
  /\ trailEntry' = NoEntry
  /\ UNCHANGED <<idx, rows, pending, written, files, all_rows>>
  /\ cellRows' = cellRows + 1
  /\ UNCHANGED <<origin, carried>>
  /\ UNCHANGED others

\* the same, the span attributes being any of those the model draws from
RowStart == RowStartWith(ColspanAttrs, RowspanAttrs)

\* lines 88-89, one turn of the loop: consume_pending_at(col) finds an entry
DrainStep ==
  /\ pc = "cell"
  /\ col \in DOMAIN pending
  /\ out' = Append(out, pending[col].val)
  /\ pending' = ConsumePending(pending, col)
  /\ col' = col + 1
  /\ UNCHANGED <<pc, idx, ncells, srcRows, tcells, rowFirst, cell, first, rows,
                 trailEntry, written, files, all_rows>>
  /\ origin' = [k \in DOMAIN pending' |-> origin[k]]
  /\ UNCHANGED <<cellRows, carried>>
  /\ UNCHANGED others

\* lines 116-117: int() rejects the colspan or the rowspan attribute; the
\* ValueError leaves parse_table and parser, which catch nothing
RaiseValueError ==
  /\ pc = "cell"
  /\ col \notin DOMAIN pending
  /\ Raises(cell.colspan) \/ Raises(cell.rowspan)
  /\ pc' = "raised"
  /\ UNCHANGED <<idx, ncells, srcRows, tcells, rowFirst, cell, first, rows, pending,
                 out, col, trailEntry, written, files, all_rows>>
  /\ UNCHANGED <<origin, cellRows, carried>>
  /\ UNCHANGED others

\* lines 116-123: the cell is placed
Placed ==
  /\ pc = "cell"
  /\ col \notin DOMAIN pending
  /\ ~ Raises(cell.colspan)
  /\ ~ Raises(cell.rowspan)
  /\ out' = EmitCell(out, cell.text, SpanValue(cell.colspan))
  /\ pending' = RegisterPending(pending, col, cell.text,
                                SpanValue(cell.colspan), SpanValue(cell.rowspan))
  /\ col' = AdvanceCol(col, SpanValue(cell.colspan))
  /\ origin' = [k \in DOMAIN pending' |->
                  IF /\ SpanValue(cell.rowspan) > 1
                     /\ k \in col .. col + SpanValue(cell.colspan) - 1
                    THEN [row |-> Len(rows), span |-> SpanValue(cell.rowspan)]
                    ELSE origin[k]]

\* lines 116-123 and 87: the cell is placed and the row has another cell
PlaceCellNextWith(CS, RS) ==
  /\ Placed
  /\ ncells < MaxCells
  /\ \E cs \in CS, rs \in RS : cell' = NextCell(cs, rs)
  /\ tcells' = tcells + 1
  /\ ncells' = ncells + 1
  /\ UNCHANGED <<pc, idx, srcRows, rowFirst, first, rows, trailEntry, written,
                 files, all_rows>>
  /\ UNCHANGED <<cellRows, carried>>
  /\ UNCHANGED others

\* the same, the span attributes being any of those the model draws from
PlaceCellNext == PlaceCellNextWith(ColspanAttrs, RowspanAttrs)

\* lines 116-123: the row's last cell is placed; line 125 is next
PlaceCellLast ==
  /\ Placed
  /\ pc' = "trail"
  /\ trailEntry' = [set |-> TRUE, col |-> col', len |-> Len(out'), pending |-> pending']
  /\ UNCHANGED <<idx, ncells, srcRows, tcells, rowFirst, cell, first, rows, written,
                 files, all_rows>>
  /\ UNCHANGED <<cellRows, carried>>
  /\ UNCHANGED others

\* lines 125-126, one turn of the loop
TrailDrain ==
  /\ pc = "trail"
  /\ col \in DOMAIN pending
  /\ out' = Append(out, pending[col].val)
  /\ pending' = ConsumePending(pending, col)
  /\ col' = col + 1
  /\ UNCHANGED <<pc, idx, ncells, srcRows, tcells, rowFirst, cell, first, rows,
                 trailEntry, written, files, all_rows>>
  /\ origin' = [k \in DOMAIN pending' |-> origin[k]]
  /\ UNCHANGED <<cellRows, carried>>
  /\ UNCHANGED others

\* RowEnd with the loop of lines 125-126 left out: the row is kept as it
\* stands after its last cell
RowEndNoDrain ==
  /\ pc = "trail"
  /\ rows' = Append(rows, out)
  /\ pc' = "rows"
  /\ cell' = NoCell
  /\ UNCHANGED <<idx, ncells, srcRows, tcells, rowFirst, first, pending, out, col,
                 trailEntry, written, files, all_rows>>
  /\ UNCHANGED <<origin, cellRows, carried>>
  /\ UNCHANGED others

\* lines 125 and 128: consume_pending_at(col) finds nothing, the row is kept
RowEnd ==
  /\ pc = "trail"
  /\ col \notin DOMAIN pending
  /\ rows' = Append(rows, out)
  /\ pc' = "rows"
  /\ cell' = NoCell
  /\ UNCHANGED <<idx, ncells, srcRows, tcells, rowFirst, first, pending, out, col,
                 trailEntry, written, files, all_rows>>
  /\ UNCHANGED <<origin, cellRows, carried>>
  /\ UNCHANGED others

\* TableSkip with the table entered into all_rows with no row
TableSkipRecorded ==
  /\ pc = "rows"
  /\ rows = <<>>
  /\ pc' = "tables"
  /\ idx' = idx + 1
  /\ all_rows' = [k \in DOMAIN all_rows \cup {idx} |->
                    IF k = idx THEN 0 ELSE all_rows[k]]
  /\ UNCHANGED <<ncells, srcRows, tcells, rowFirst, cell, first, rows, pending, out,
                 col, trailEntry, written, files>>
  /\ UNCHANGED <<origin, cellRows, carried>>
  /\ UNCHANGED others

\* lines 130 and 140-142: the table has no row with cells and is passed over
TableSkip ==
  /\ pc = "rows"
  /\ rows = <<>>
  /\ pc' = "tables"
  /\ idx' = idx + 1
  /\ UNCHANGED <<ncells, srcRows, tcells, rowFirst, cell, first, rows, pending, out,
                 col, trailEntry, written, files, all_rows>>
  /\ UNCHANGED <<origin, cellRows, carried>>
  /\ UNCHANGED others

\* lines 130 and 144-162: the rows are padded and written to the table's
\* file, and their number is recorded
TableExport ==
  /\ pc = "rows"
  /\ rows # <<>>
  /\ written' = Normalize(rows)
  /\ files' = [k \in DOMAIN files \cup {OutputFilename(idx)} |->
                 IF k = OutputFilename(idx) THEN idx ELSE files[k]]
  /\ all_rows' = [k \in DOMAIN all_rows \cup {idx} |->
                    IF k = idx THEN Len(rows) ELSE all_rows[k]]
  /\ pc' = "tables"
  /\ idx' = idx + 1
  /\ UNCHANGED <<ncells, srcRows, tcells, rowFirst, cell, first, rows, pending, out,
                 col, trailEntry>>
  /\ carried' = (carried \/ pending # Empty)
  /\ UNCHANGED <<origin, cellRows>>
  /\ UNCHANGED others

\* lines 58-60 and 164: no table (left); parser returns all_rows
Finish ==
  /\ pc = "tables"
  /\ pc' = "done"
  /\ UNCHANGED <<idx, ncells, srcRows, tcells, rowFirst, cell, first, rows, pending,
                 out, col, trailEntry, written, files, all_rows>>
  /\ UNCHANGED <<origin, cellRows, carried>>
  /\ UNCHANGED others

Next ==
  \/ StartTable
  \/ RowSkip
  \/ RowStart
  \/ DrainStep
  \/ RaiseValueError
  \/ PlaceCellNext
  \/ PlaceCellLast
  \/ TrailDrain
  \/ RowEnd
  \/ TableSkip
  \/ TableExport
  \/ Finish

Spec == Init /\ [][Next]_vars

(* ------------------------------------------- tables with well-formed spans *)
\* Documents all of whose span attributes are absent or a positive integer:
\* int() accepts each of them and none is below 1.
ValidColspans == {Absent, Num(2)}
ValidRowspans == {Absent, Num(2)}

RowStartValid == RowStartWith(ValidColspans, ValidRowspans)
PlaceCellNextValid == PlaceCellNextWith(ValidColspans, ValidRowspans)

NextValid ==
  \/ StartTable
  \/ RowSkip
  \/ RowStartValid
  \/ DrainStep
  \/ PlaceCellNextValid
  \/ PlaceCellLast
  \/ TrailDrain
  \/ RowEnd
  \/ TableSkip
  \/ TableExport
  \/ Finish

SpecValid == Init /\ [][NextValid]_vars

(* ------------------------------------------------- tables with equal texts *)
\* parse_table taken by its result.  The cells of the tables read above all
\* differ in their text; here the resolved rows of a table are drawn from
\* rows whose texts may repeat those of another table, as the header rows
\* of two tables of one page do.
HeaderTexts == {"Name", "Code"}
ResolvedRows == UNION {[1 .. n -> HeaderTexts] : n \in 1 .. 2}
ResolvedTables == UNION {[1 .. m -> ResolvedRows] : m \in 1 .. 2}

\* line 140: rows = parse_table(table), a table with rows
ResolvedTable ==
  /\ pc = "rows"
  /\ rows = <<>>
  /\ srcRows = 0
  /\ \E t \in ResolvedTables :
       /\ rows' = t
       /\ srcRows' = Len(t)
       /\ cellRows' = Len(t)
       /\ header0' = IF idx = 0 THEN t[1] ELSE header0
  /\ UNCHANGED <<pc, idx, ncells, tcells, rowFirst, cell, first, pending, out,
                 col, trailEntry, origin, carried, written, files, all_rows>>
  /\ UNCHANGED <<epc, ecells, cellImgs, imgs, plain, cell_text, collected_images>>
  /\ UNCHANGED csv_path
  /\ UNCHANGED components

\* lines 138-164 over tables already resolved
MergeNext ==
  \/ StartTable
  \/ ResolvedTable
  \/ TableSkip
  \/ TableExport
  \/ Finish

SpecMerge == Init /\ [][MergeNext]_vars

(* ------------------------------------------------ parser called with a path *)
\* Values of csv_path other than its default: the file of the second
\* table, the positional name of the third one, a name of its own
CsvPaths == {"recources/codes/mission_stratagems.csv", "table_2.csv", "out.csv"}

\* line 42: parser is called with a csv_path argument
ParserCalledWith ==
  /\ pc = "tables"
  /\ idx = 0
  /\ csv_path = DefaultCsvPath
  /\ csv_path' \in CsvPaths
  /\ UNCHANGED tablevars
  /\ UNCHANGED <<header0, epc, ecells, cellImgs, imgs, plain, cell_text,
                 collected_images>>
  /\ UNCHANGED components

RouteNext ==
  \/ ParserCalledWith
  \/ StartTable
  \/ ResolvedTable
  \/ TableSkip
  \/ TableExport
  \/ Finish

SpecRoute == Init /\ [][RouteNext]_vars

(* -------------------------------------------------------- download_images *)
\* What download_images leaves alone
nondl == <<tablevars, header0, csv_path, epc, ecells, cellImgs, imgs, plain, cell_text,
           entryvars, gamevars, svgvars, keyvars>>

\* The references parser may have collected: alt and src as stored, empty
\* or not
CollectedRefs == [alt : {"", "Up"}, src : {"", "s.png"}]
CollectedLists == UNION {[1 .. n -> CollectedRefs] : n \in 0 .. MaxDownloads}

\* parser has run; self.collected_images is what it collected
Collected ==
  /\ dpc = "idle"
  /\ collected_images' \in CollectedLists
  /\ dpc' = "call"
  /\ UNCHANGED <<dimg, attempt, outcome, left429, saved>>
  /\ UNCHANGED nondl

\* lines 171-173: nothing was collected
DownloadNothing ==
  /\ dpc = "call"
  /\ collected_images = <<>>
  /\ dpc' = "done"
  /\ UNCHANGED <<collected_images, dimg, attempt, outcome, left429, saved>>
  /\ UNCHANGED nondl

\* lines 175-179: the loop over self.collected_images starts
DownloadBegin ==
  /\ dpc = "call"
  /\ collected_images # <<>>
  /\ dimg' = 1
  /\ dpc' = "image"
  /\ UNCHANGED <<collected_images, attempt, outcome, left429, saved>>
  /\ UNCHANGED nondl

\* line 183
Unusable(ref) == ref.alt = "" \/ ref.src = ""

\* lines 180-184: an entry with an empty alt or src is passed over
SkipUnusable ==
  /\ dpc = "image"
  /\ dimg <= Len(collected_images)
  /\ Unusable(collected_images[dimg])
  /\ dimg' = dimg + 1
  /\ UNCHANGED <<collected_images, dpc, attempt, outcome, left429, saved>>
  /\ UNCHANGED nondl

\* lines 216-219: the file is there already, from before the call or saved
\* by it under the same alt text
SkipExisting ==
  /\ dpc = "image"
  /\ dimg <= Len(collected_images)
  /\ ~ Unusable(collected_images[dimg])
  /\ dimg' = dimg + 1
  /\ UNCHANGED <<collected_images, dpc, attempt, outcome, left429, saved>>
  /\ UNCHANGED nondl

\* lines 216 and 222-224: the file is not there; success = False, attempt = 0
BeginAttempts ==
  /\ dpc = "image"
  /\ dimg <= Len(collected_images)
  /\ ~ Unusable(collected_images[dimg])
  /\ collected_images[dimg].alt \notin saved
  /\ attempt' = 0
  /\ outcome' = "none"
  /\ left429' \in 0 .. Max429
  /\ dpc' = "attempt"
  /\ UNCHANGED <<collected_images, dimg, saved>>
  /\ UNCHANGED nondl

\* lines 225-232: one more turn of the while loop, the request is sent
Request ==
  /\ dpc = "attempt"
  /\ attempt' = attempt + 1
  /\ dpc' = "response"
  /\ UNCHANGED <<collected_images, dimg, outcome, left429, saved>>
  /\ UNCHANGED nondl

\* lines 233 and 243-247: raise_for_status raises for a 429; after the
\* sleep the while loop goes round again
Answer429 ==
  /\ dpc = "response"
  /\ left429 > 0
  /\ left429' = left429 - 1
  /\ outcome' = "429"
  /\ dpc' = "attempt"
  /\ UNCHANGED <<collected_images, dimg, attempt, saved>>
  /\ UNCHANGED nondl

\* lines 233-241: the answer is good and the file is written
AnswerSaved ==
  /\ dpc = "response"
  /\ left429 = 0
  /\ outcome' = "saved"
  /\ saved' = saved \cup {collected_images[dimg].alt}
  /\ dimg' = dimg + 1
  /\ dpc' = "image"
  /\ UNCHANGED <<collected_images, attempt, left429>>
  /\ UNCHANGED nondl

\* AnswerFailed with the request sent again after the failure
AnswerFailedRetries ==
  /\ dpc = "response"
  /\ left429 = 0
  /\ outcome' \in {"http error", "request error", "save error"}
  /\ dpc' = "attempt"
  /\ UNCHANGED <<collected_images, dimg, attempt, left429, saved>>
  /\ UNCHANGED nondl

\* lines 248-257: an HTTP error other than 429, another RequestException,
\* or an exception while the file is written; success = True
AnswerFailed ==
  /\ dpc = "response"
  /\ left429 = 0
  /\ outcome' \in {"http error", "request error", "save error"}
  /\ dimg' = dimg + 1
  /\ dpc' = "image"
  /\ UNCHANGED <<collected_images, attempt, left429, saved>>
  /\ UNCHANGED nondl

\* line 179: the list is exhausted, download_images returns
DownloadEnd ==
  /\ dpc = "image"
  /\ dimg > Len(collected_images)
  /\ dpc' = "done"
  /\ UNCHANGED <<collected_images, dimg, attempt, outcome, left429, saved>>
  /\ UNCHANGED nondl

DownloadNext ==
  \/ Collected
  \/ DownloadNothing
  \/ DownloadBegin
  \/ SkipUnusable
  \/ SkipExisting
  \/ BeginAttempts
  \/ Request
  \/ Answer429
  \/ AnswerSaved
  \/ AnswerFailed
  \/ DownloadEnd

SpecDownload == Init /\ [][DownloadNext]_vars

\* The call is not suspended for ever: a step that can be taken is taken
SpecDownloadFair == SpecDownload /\ WF_vars(DownloadNext)

(* ---------------------------------------------- get_stratagem_table_entry *)
\* What the start of the game leaves alone
nonentry == <<tablevars, header0, csv_path, epc, ecells, cellImgs, imgs, plain,
              cell_text, collected_images, dlvars, gamevars, svgvars, keyvars>>

\* The mappings parser can return: any set of table indices, each with the
\* number of rows of its table, one at least (lines 140-142 and 159)
ParserReturns ==
  UNION {[S -> 1 .. MaxRows] : S \in SUBSET (0 .. MaxTables - 1)}

RECURSIVE SumRows(_, _)
\* main.py lines 145-147: the sum of the values of all_rows
SumRows(f, S) ==
  IF S = {} THEN 0
  ELSE LET k == CHOOSE x \in S : TRUE
       IN  f[k] + SumRows(f, S \ {k})

\* What get_stratagem_table_entry gives: None, a row of one of the two
\* data frames (row 0 is the header row of the file), or a KeyError
NoneEntry == [kind |-> "none", file |-> "", row |-> 0, col |-> 0]
KeyErrorEntry == [kind |-> "raise", file |-> "", row |-> 0, col |-> 0]
RowEntry(f, r, c) == [kind |-> "row", file |-> f, row |-> r, col |-> c]

\* The column names the game asks for
ColumnNames == {"Department", "Icon", "Stratagem", "Stratagem Codes"}

\* main.py lines 126-143 with 166 and 173-177: self.column_names and
\* self.mission_column_names give these names the same positions, the
\* mission file having "Type" where the other has "Department"
ColumnIndex(name) ==
  IF name = "Department" THEN 0
  ELSE IF name = "Icon" THEN 1
  ELSE IF name = "Stratagem" THEN 2
  ELSE 3

\* main.py lines 158-180
TableEntry(ar, total, slen, mlen, index, name) ==
  LET i == index + 1
  IN  IF i > total THEN NoneEntry
      ELSE IF 0 \notin DOMAIN ar THEN KeyErrorEntry
      ELSE IF i <= ar[0]
        THEN IF i < slen
          THEN RowEntry("stratagems", i, ColumnIndex(name))
          ELSE NoneEntry
        ELSE IF i - ar[0] < mlen
          THEN RowEntry("mission", i - ar[0], ColumnIndex(name))
          ELSE NoneEntry

\* main.py lines 381-391 and 145-150: all_rows comes back from the
\* collector, one is taken off every count for the header row, the game
\* object sums the counts and reads the two files.  A file the collector
\* did not write in this run is one left by an earlier run.
GameInit ==
  /\ gpc = "start"
  /\ \E m \in ParserReturns :
       /\ game_rows' = [k \in DOMAIN m |-> m[k] - 1]
       /\ total_rows' = SumRows([k \in DOMAIN m |-> m[k] - 1], DOMAIN m)
       /\ stratLen' \in (IF 0 \in DOMAIN m THEN {m[0]} ELSE 1 .. MaxRows)
       /\ missionLen' \in (IF 1 \in DOMAIN m THEN {m[1]} ELSE 1 .. MaxRows)
  /\ gpc' = "ready"
  /\ UNCHANGED <<qindex, entry>>
  /\ UNCHANGED nonentry

\* main.py lines 184-187, 319-323: validate_stratagem_codes and the game
\* ask for a column of the entry of an index of range(self.total_rows)
EntryQuery ==
  /\ gpc = "ready"
  /\ \E i \in 0 .. total_rows - 1, name \in ColumnNames :
       /\ qindex' = i
       /\ entry' = TableEntry(game_rows, total_rows, stratLen, missionLen, i, name)
  /\ UNCHANGED <<gpc, game_rows, total_rows, stratLen, missionLen>>
  /\ UNCHANGED nonentry

EntryNext == GameInit \/ EntryQuery

SpecEntry == Init /\ [][EntryNext]_vars

(* ------------------------------------------------------ stratagemHero.run *)
\* What the game loop leaves alone
nongame == <<tablevars, header0, csv_path, epc, ecells, cellImgs, imgs, plain,
             cell_text, collected_images, dlvars, entryvars, svgvars, keyvars>>

\* The text of a "Stratagem Codes" entry, part by part: each part is a word
\* and the separator that stands before it (the first part is given the
\* separator of the others).  The collector joins with " | ", a text typed
\* into the cell may have "|" alone; "nan", the whole text, is how pandas
\* hands back an empty cell.  The empty sequence stands for an entry of None.
Directions == {"Up", "Down", "Left", "Right"}
CodeWords == Directions \cup {"nan"}
Separators == {" | ", "|"}
CodeParts == [sep : Separators, word : CodeWords]
CodeTexts ==
  {c \in UNION {[1 .. n -> CodeParts] : n \in 1 .. MaxCode} :
     /\ \A i \in 1 .. Len(c) : c[i].sep = c[1].sep
     /\ Len(c) = 1 => c[1].sep = " | "
     /\ \A i \in 1 .. Len(c) : c[i].word = "nan" => Len(c) = 1}
CodeEntries == CodeTexts \cup {<<>>}

HasDirection(part) == part.word \in Directions

\* main.py lines 241-254: the key name of a part
KeyName(word) ==
  IF word = "Up" THEN "up"
  ELSE IF word = "Down" THEN "down"
  ELSE IF word = "Left" THEN "left"
  ELSE "right"

\* main.py lines 241-254: the glyph of a part
Glyph(word, compat) ==
  IF word = "Up" THEN (IF compat THEN "^" ELSE "arrow up")
  ELSE IF word = "Down" THEN (IF compat THEN "v" ELSE "arrow down")
  ELSE IF word = "Left" THEN (IF compat THEN "<" ELSE "arrow left")
  ELSE (IF compat THEN ">" ELSE "arrow right")

\* NormalCode with a key, "up", entered for a part without a direction
NormalCodeEveryPart(code) ==
  [i \in 1 .. Len(code) |->
     IF HasDirection(code[i]) THEN KeyName(code[i].word) ELSE "up"]

\* main.py lines 235-255, normal_code: code.split("|") gives one part for
\* each word; a part without a direction adds nothing (None is read as "")
NormalCode(code) ==
  LET h == SelectSeq(code, HasDirection)
  IN  [i \in 1 .. Len(h) |-> KeyName(h[i].word)]

\* main.py lines 235-255, arrow_code
ArrowCode(code, compat) ==
  LET h == SelectSeq(code, HasDirection)
  IN  [i \in 1 .. Len(h) |-> Glyph(h[i].word, compat)]

RECURSIVE SplitCode(_)
\* main.py line 324: str(full_code).split(" | "); words with "|" alone
\* between them stay in one part
SplitCode(code) ==
  IF code = <<>> THEN <<"None">>
  ELSE IF Len(code) = 1 THEN <<code[1].word>>
  ELSE LET n == Len(code)
           front == SplitCode(SubSeq(code, 1, n - 1))
       IN  IF code[n].sep = " | "
             THEN Append(front, code[n].word)
             ELSE [front EXCEPT ![Len(front)] = front[Len(front)] \o "|" \o code[n].word]

\* main.py line 295
KeyLookup(name) ==
  IF name = "up" THEN "w"
  ELSE IF name = "down" THEN "s"
  ELSE IF name = "left" THEN "a"
  ELSE IF name = "right" THEN "d"
  ELSE ""

\* pygame.key.name(event.key): the arrow keys, W A S D, another key
KeyNames == {"up", "down", "left", "right", "w", "a", "s", "d", "x"}

\* main.py line 338, the test of the key against normal_code[completed_indices]
Expected(key) ==
  \/ key = normal_code[completed_indices + 1]
  \/ key = KeyLookup(normal_code[completed_indices + 1])

\* main.py lines 315-326, load_new_stratagem: the variables after it, the
\* new stratagem having the entry code (compatibility_mode is False, line 152)
LoadNewStratagem(code) ==
  /\ full_code' = code
  /\ completed_indices' = 0
  /\ split_code' = SplitCode(code)
  /\ update' = TRUE
  /\ arrow_code' = ArrowCode(code, FALSE)
  /\ normal_code' = NormalCode(code)
  /\ loaded' = TRUE

\* main.py lines 280-331: run starts and loads the first stratagem
RunStart ==
  /\ mpc = "init"
  /\ \E code \in CodeEntries : LoadNewStratagem(code)
  /\ running' = TRUE
  /\ mpc' = "poll"
  /\ UNCHANGED <<nbatch, event>>
  /\ UNCHANGED nongame

\* main.py lines 332-333: pygame.event.get() delivers a batch of events
Poll ==
  /\ mpc = "poll"
  /\ running
  /\ nbatch' \in 0 .. MaxBatch
  /\ mpc' = "events"
  /\ loaded' = FALSE
  /\ UNCHANGED <<full_code, split_code, arrow_code, normal_code, completed_indices,
                 update, running, event>>
  /\ UNCHANGED nongame

\* main.py lines 334-335: a QUIT event
HandleQuit ==
  /\ mpc = "events"
  /\ nbatch > 0
  /\ event' = [type |-> "QUIT", key |-> ""]
  /\ running' = FALSE
  /\ nbatch' = nbatch - 1
  /\ loaded' = FALSE
  /\ UNCHANGED <<mpc, full_code, split_code, arrow_code, normal_code,
                 completed_indices, update>>
  /\ UNCHANGED nongame

\* main.py line 338: normal_code[completed_indices] is out of range, the
\* IndexError ends run
KeyIndexError ==
  /\ mpc = "events"
  /\ nbatch > 0
  /\ completed_indices >= Len(normal_code)
  /\ \E key \in KeyNames : event' = [type |-> "KEYDOWN", key |-> key]
  /\ mpc' = "raised"
  /\ loaded' = FALSE
  /\ UNCHANGED <<full_code, split_code, arrow_code, normal_code, completed_indices,
                 update, running, nbatch>>
  /\ UNCHANGED nongame

\* KeyAccepted with the new stratagem loaded one key late, when
\* completed_indices has gone past the end of the code
KeyAcceptedLoadsLate ==
  /\ mpc = "events"
  /\ nbatch > 0
  /\ \/ /\ completed_indices < Len(normal_code)
        /\ \E key \in KeyNames :
             /\ Expected(key)
             /\ event' = [type |-> "KEYDOWN", key |-> key]
        /\ completed_indices' = completed_indices + 1
        /\ update' = TRUE
        /\ loaded' = FALSE
        /\ UNCHANGED <<full_code, split_code, arrow_code, normal_code>>
     \/ /\ completed_indices >= Len(normal_code)
        /\ \E key \in KeyNames : event' = [type |-> "KEYDOWN", key |-> key]
        /\ \E code \in CodeEntries : LoadNewStratagem(code)
  /\ nbatch' = nbatch - 1
  /\ UNCHANGED <<mpc, running>>
  /\ UNCHANGED nongame

\* main.py lines 337-342: the key is the expected one
KeyAccepted ==
  /\ mpc = "events"
  /\ nbatch > 0
  /\ completed_indices < Len(normal_code)
  /\ \E key \in KeyNames :
       /\ Expected(key)
       /\ event' = [type |-> "KEYDOWN", key |-> key]
  /\ IF completed_indices + 1 >= Len(normal_code)
       THEN \E code \in CodeEntries : LoadNewStratagem(code)
       ELSE /\ completed_indices' = completed_indices + 1
            /\ update' = TRUE
            /\ loaded' = FALSE
            /\ UNCHANGED <<full_code, split_code, arrow_code, normal_code>>
  /\ nbatch' = nbatch - 1
  /\ UNCHANGED <<mpc, running>>
  /\ UNCHANGED nongame

\* KeyRejected with the progress through the code started over
KeyRejectedResets ==
  /\ mpc = "events"
  /\ nbatch > 0
  /\ completed_indices < Len(normal_code)
  /\ \E key \in KeyNames :
       /\ ~ Expected(key)
       /\ event' = [type |-> "KEYDOWN", key |-> key]
  /\ completed_indices' = 0
  /\ update' = TRUE
  /\ nbatch' = nbatch - 1
  /\ loaded' = FALSE
  /\ UNCHANGED <<mpc, full_code, split_code, arrow_code, normal_code, running>>
  /\ UNCHANGED nongame

\* main.py lines 337-338 and 343-346: another key, a message is printed
KeyRejected ==
  /\ mpc = "events"
  /\ nbatch > 0
  /\ completed_indices < Len(normal_code)
  /\ \E key \in KeyNames :
       /\ ~ Expected(key)
       /\ event' = [type |-> "KEYDOWN", key |-> key]
  /\ nbatch' = nbatch - 1
  /\ loaded' = FALSE
  /\ UNCHANGED <<mpc, full_code, split_code, arrow_code, normal_code,
                 completed_indices, update, running>>
  /\ UNCHANGED nongame

\* main.py lines 333 and 348: the batch is exhausted
BatchEnd ==
  /\ mpc = "events"
  /\ nbatch = 0
  /\ mpc' = "draw"
  /\ loaded' = FALSE
  /\ UNCHANGED <<full_code, split_code, arrow_code, normal_code, completed_indices,
                 update, running, nbatch, event>>
  /\ UNCHANGED nongame

\* main.py lines 348-377: update is set, the screen is drawn again
Redraw ==
  /\ mpc = "draw"
  /\ update
  /\ update' = FALSE
  /\ mpc' = "poll"
  /\ loaded' = FALSE
  /\ UNCHANGED <<full_code, split_code, arrow_code, normal_code, completed_indices,
                 running, nbatch, event>>
  /\ UNCHANGED nongame

\* main.py lines 348 and 332: update is clear, nothing is drawn
NoRedraw ==
  /\ mpc = "draw"
  /\ ~ update
  /\ mpc' = "poll"
  /\ loaded' = FALSE
  /\ UNCHANGED <<full_code, split_code, arrow_code, normal_code, completed_indices,
                 update, running, nbatch, event>>
  /\ UNCHANGED nongame

\* main.py line 332: running is False, run returns
RunEnd ==
  /\ mpc = "poll"
  /\ ~ running
  /\ mpc' = "exit"
  /\ loaded' = FALSE
  /\ UNCHANGED <<full_code, split_code, arrow_code, normal_code, completed_indices,
                 update, running, nbatch, event>>
  /\ UNCHANGED nongame

GameNext ==
  \/ RunStart
  \/ Poll
  \/ HandleQuit
  \/ KeyIndexError
  \/ KeyAccepted
  \/ KeyRejected
  \/ BatchEnd
  \/ Redraw
  \/ NoRedraw
  \/ RunEnd

SpecGame == Init /\ [][GameNext]_vars

(* ------------------------------------------------------------ ImageLoader *)
\* What ImageLoader leaves alone
nonsvg == <<tablevars, header0, csv_path, epc, ecells, cellImgs, imgs, plain,
            cell_text, collected_images, dlvars, entryvars, gamevars, keyvars>>

\* main.py lines 25-45: an ImageLoader is made.  The cache directory may
\* hold PNG files of earlier runs; Inkscape is installed or it is not.
LoaderInit ==
  /\ spc = "init"
  /\ cache' \in SUBSET SvgNames
  /\ installed' \in BOOLEAN
  /\ inkscape_path' = "None"
  /\ spc' = "ready"
  /\ UNCHANGED <<runs, made, nloads, png>>
  /\ UNCHANGED nonsvg

\* main.py lines 89-91, 49-53 and 65: the PNG of the SVG is in the cache;
\* its path is returned
LoadCached ==
  /\ spc = "ready"
  /\ nloads < MaxLoads
  /\ \E n \in cache : png' = [kind |-> "path", name |-> n]
  /\ nloads' = nloads + 1
  /\ UNCHANGED <<spc, cache, installed, inkscape_path, runs, made>>
  /\ UNCHANGED nonsvg

\* main.py lines 53-60: no PNG in the cache, no Inkscape path yet, and
\* find_inkscape() finds none: FileNotFoundError
LoadNoInkscape ==
  /\ spc = "ready"
  /\ nloads < MaxLoads
  /\ inkscape_path = "None"
  /\ ~ installed
  /\ \E n \in SvgNames \ cache : png' = [kind |-> "FileNotFoundError", name |-> n]
  /\ nloads' = nloads + 1
  /\ UNCHANGED <<spc, cache, installed, inkscape_path, runs, made>>
  /\ UNCHANGED nonsvg

\* LoadConverts with the converter run whether the PNG is cached or not
LoadConvertsAlways ==
  /\ spc = "ready"
  /\ nloads < MaxLoads
  /\ inkscape_path # "None" \/ installed
  /\ inkscape_path' = "inkscape"
  /\ \E n \in SvgNames, ok \in BOOLEAN :
       /\ runs' = [runs EXCEPT ![n] = runs[n] + 1]
       /\ cache' = IF ok THEN cache \cup {n} ELSE cache
       /\ made' = IF ok THEN made \cup {n} ELSE made
       /\ png' = [kind |-> "AttributeError", name |-> n]
  /\ nloads' = nloads + 1
  /\ UNCHANGED <<spc, installed>>
  /\ UNCHANGED nonsvg

\* main.py lines 53-63 with convert_svgs.py lines 65-89: no PNG in the
\* cache; Inkscape is looked up if it has not been, and the converter is
\* run.  Inkscape writes the PNG or fails.  Either way convert_svg_to_png,
\* handed the paths as str, ends in AttributeError: the print of line 85
\* reads svg_path.name, and so does the print of the except branch, line 88.
LoadConverts ==
  /\ spc = "ready"
  /\ nloads < MaxLoads
  /\ inkscape_path # "None" \/ installed
  /\ inkscape_path' = "inkscape"
  /\ \E n \in SvgNames \ cache, ok \in BOOLEAN :
       /\ runs' = [runs EXCEPT ![n] = runs[n] + 1]
       /\ cache' = IF ok THEN cache \cup {n} ELSE cache
       /\ made' = IF ok THEN made \cup {n} ELSE made
       /\ png' = [kind |-> "AttributeError", name |-> n]
  /\ nloads' = nloads + 1
  /\ UNCHANGED <<spc, installed>>
  /\ UNCHANGED nonsvg

SvgNext == LoaderInit \/ LoadCached \/ LoadNoInkscape \/ LoadConverts

SpecSvg == Init /\ [][SvgNext]_vars

(* --------------------------------------------------- NonBlockingKeyReader *)
\* What the key reader leaves alone
nonkeys == <<tablevars, header0, csv_path, epc, ecells, cellImgs, imgs, plain,
             cell_text, collected_images, dlvars, entryvars, gamevars, svgvars>>

\* Attributes the terminal may have when the reader is made
TermSettings == {"cooked", "cbreak", "noecho"}

\* Keys that are typed
TypedKeys == {"q", "w"}

\* The terminal is set up by the user before the program starts
TermSetBefore ==
  /\ kpc = "new"
  /\ term' \in TermSettings \ {term}
  /\ UNCHANGED <<kpc, original_settings, stdin, typed, keyRead, left>>
  /\ UNCHANGED nonkeys

\* KeyReaderInit with the attributes read after raw mode was entered
KeyReaderInitCapturesRaw ==
  /\ kpc = "new"
  /\ original_settings' = "raw"
  /\ term' = "raw"
  /\ kpc' = "with"
  /\ UNCHANGED <<stdin, typed, keyRead, left>>
  /\ UNCHANGED nonkeys

\* key_reader.py lines 13-33 and 96-97: the reader is made on Linux and the
\* with-block is entered; tcgetattr, then tty.setraw
KeyReaderInit ==
  /\ kpc = "new"
  /\ original_settings' = term
  /\ term' = "raw"
  /\ kpc' = "with"
  /\ UNCHANGED <<stdin, typed, keyRead, left>>
  /\ UNCHANGED nonkeys

\* A key is typed
KeyTyped ==
  /\ kpc = "with"
  /\ typed < MaxKeys
  /\ \E k \in TypedKeys : stdin' = Append(stdin, k)
  /\ typed' = typed + 1
  /\ UNCHANGED <<kpc, term, original_settings, keyRead, left>>
  /\ UNCHANGED nonkeys

\* ReadKeyNone with the reader waiting for a key (a blocking read): the
\* call comes back with the key typed next
ReadKeyWaits ==
  /\ kpc = "with"
  /\ stdin = <<>>
  /\ typed < MaxKeys
  /\ \E k \in TypedKeys : keyRead' = k
  /\ typed' = typed + 1
  /\ UNCHANGED <<kpc, term, original_settings, stdin, left>>
  /\ UNCHANGED nonkeys

\* key_reader.py lines 47-53 and 79-82: select finds nothing to read, or
\* select fails and the exception is caught; read_key returns None
ReadKeyNone ==
  /\ kpc = "with"
  /\ stdin = <<>>
  /\ keyRead' = "None"
  /\ UNCHANGED <<kpc, term, original_settings, stdin, typed, left>>
  /\ UNCHANGED nonkeys

\* key_reader.py lines 47-52: select finds input, read_key returns the key
ReadKeySome ==
  /\ kpc = "with"
  /\ stdin # <<>>
  /\ keyRead' = Head(stdin)
  /\ stdin' = Tail(stdin)
  /\ UNCHANGED <<kpc, term, original_settings, typed, left>>
  /\ UNCHANGED nonkeys

\* LeaveBlock with cleanup not called
LeaveBlockNoCleanup ==
  /\ kpc = "with"
  /\ left' \in {"exception"} \cup (IF keyRead = "q" THEN {"quit"} ELSE {})
  /\ kpc' = "exited"
  /\ UNCHANGED <<term, original_settings, stdin, typed, keyRead>>
  /\ UNCHANGED nonkeys

\* key_reader.py lines 84-94: the with-block is left, by the break after
\* 'q' or by an exception raised in it (KeyboardInterrupt, say); __exit__
\* calls cleanup, which sets the attributes back
LeaveBlock ==
  /\ kpc = "with"
  /\ left' \in {"exception"} \cup (IF keyRead = "q" THEN {"quit"} ELSE {})
  /\ term' = original_settings
  /\ kpc' = "exited"
  /\ UNCHANGED <<original_settings, stdin, typed, keyRead>>
  /\ UNCHANGED nonkeys

KeysNext ==
  \/ TermSetBefore
  \/ KeyReaderInit
  \/ KeyTyped
  \/ ReadKeyNone
  \/ ReadKeySome
  \/ LeaveBlock

SpecKeys == Init /\ [][KeysNext]_vars

(* ------------------------------------------------------- content of a cell *)
\* An attribute of an <img> as has_attr and get find it: missing, or a
\* string, given by what str.strip() leaves of it (text) and by whether it
\* has white space around that (pad).
NoAttr == [has |-> FALSE, pad |-> FALSE, text |-> ""]
Attr(pad, text) == [has |-> TRUE, pad |-> pad, text |-> text]

\* img.has_attr(name)
HasAttr(a) == a.has

\* img.get(name, "").strip()
Strip(a) == a.text

\* alt: missing, empty, a word, a word with white space around it
AltAttrs == {NoAttr, Attr(FALSE, ""), Attr(FALSE, "Up"), Attr(TRUE, "Down")}
\* src: missing, white space only, a locator
SrcAttrs == {NoAttr, Attr(TRUE, ""), Attr(FALSE, "s.png")}

\* Where an <img> stands in its cell: inside a span.Stratagemcodeicon,
\* inside a <p> (and no such span), or in neither
Scopes == {"icon", "para", "cell"}

Images == [scope : Scopes, alt : AltAttrs, src : SrcAttrs]

\* The <img> elements of a cell in document order: none, one or two
CellContents == UNION {[1 .. n -> Images] : n \in 0 .. 2}

\* cell.get_text(" ", strip=True)
PlainTexts == {"txt"}

IsIcon(img) == img.scope = "icon"
IsPara(img) == img.scope = "para"

\* cell.select("span.Stratagemcodeicon img")
IconImgs(c) == SelectSeq(c, IsIcon)

\* cell.select("p img"), asked for when no <img> stands in an icon span
ParaImgs(c) == SelectSeq(c, IsPara)

\* SelectedImgs with every <img> of the cell taken, whatever the selectors
\* of higher priority match
SelectedImgsAll(c) == c

\* lines 91-95: the first of the three selectors that matches decides
SelectedImgs(c) ==
  IF IconImgs(c) # <<>> THEN IconImgs(c)
  ELSE IF ParaImgs(c) # <<>> THEN ParaImgs(c)
  ELSE c

HasAlt(img) == HasAttr(img.alt)
HasAltAndSrc(img) == HasAttr(img.alt) /\ HasAttr(img.src)

\* line 98: alts
Alts(m) ==
  LET h == SelectSeq(m, HasAlt)
  IN  [i \in 1 .. Len(h) |-> Strip(h[i].alt)]

RECURSIVE Join(_)
\* " | ".join(strs)
Join(strs) ==
  IF strs = <<>> THEN ""
  ELSE IF Len(strs) = 1 THEN strs[1]
  ELSE strs[1] \o " | " \o Join(Tail(strs))

\* lines 97, 110-114: cell_text
CellTextOf(m, p) ==
  IF m # <<>>
    THEN IF Alts(m) # <<>> THEN Join(Alts(m)) ELSE p
    ELSE p

\* lines 103-109: what is appended to self.collected_images
Refs(m) ==
  LET h == SelectSeq(m, HasAltAndSrc)
  IN  [i \in 1 .. Len(h) |-> [alt |-> Strip(h[i].alt), src |-> Strip(h[i].src)]]

\* line 87: the loop is at a cell
CellVisit ==
  /\ epc = "cell"
  /\ ecells < MaxImageCells
  /\ \E c \in CellContents, p \in PlainTexts :
       /\ cellImgs' = c
       /\ plain' = p
  /\ epc' = "select"
  /\ UNCHANGED <<ecells, imgs, cell_text, collected_images, beyond>>
  /\ UNCHANGED tablevars

\* lines 91-95
SelectImages ==
  /\ epc = "select"
  /\ imgs' = SelectedImgs(cellImgs)
  /\ epc' = "text"
  /\ UNCHANGED <<ecells, cellImgs, plain, cell_text, collected_images, beyond>>
  /\ UNCHANGED tablevars

\* lines 97-114
CellTextAndImages ==
  /\ epc = "text"
  /\ collected_images' = collected_images \o Refs(imgs)
  /\ cell_text' = CellTextOf(imgs, plain)
  /\ ecells' = ecells + 1
  /\ epc' = "cell"
  /\ UNCHANGED <<cellImgs, imgs, plain, beyond>>
  /\ UNCHANGED tablevars

CellNext == CellVisit \/ SelectImages \/ CellTextAndImages

SpecCell == Init /\ [][CellNext]_vars

(* ---------------------------------------------------------------- claims *)
\* A step of lines 116-123: the loop is at a cell, no pending span sits at
\* the cursor and int() accepts both attributes
PlacesCell ==
  /\ pc = "cell"
  /\ col \notin DOMAIN pending
  /\ ~ Raises(cell.colspan)
  /\ ~ Raises(cell.rowspan)

\* The number, within the current table, of the cell whose text is t
TextIndex(t) == CHOOSE n \in 1 .. Len(Texts[idx + 1]) : CellText(idx, n) = t

\* Column k holds a pending span that a cell of an earlier row registered
FromEarlierRow(k) ==
  k \in DOMAIN pending /\ TextIndex(pending[k].val) < rowFirst

\* C1: no double-fill.  When a literal cell is placed, none of the columns
\* it is written to (col .. col + colspan - 1) holds a pending span of an
\* earlier row that is still active.
NoDoubleFillStep ==
  PlacesCell =>
    \A k \in col .. col + SpanValue(cell.colspan) - 1 : ~ FromEarlierRow(k)
NoDoubleFill == [][NoDoubleFillStep]_vars

\* C2: span conservation.  The table has no row without cells and its first
\* cell has colspan c >= 1 and rowspan r >= 1: between two rows, the rows
\* resolved so far hold that cell's text at every position (i, j) with
\* i < r and j < c, and at no other position.
SpanConservation ==
  (/\ pc = "rows"
   /\ srcRows = Len(rows)
   /\ rows # <<>>
   /\ SpanValue(first.colspan) >= 1
   /\ SpanValue(first.rowspan) >= 1)
  => \A i \in 1 .. Len(rows) :
       /\ i <= SpanValue(first.rowspan) => Len(rows[i]) >= SpanValue(first.colspan)
       /\ \A j \in 1 .. Len(rows[i]) :
            rows[i][j] = first.text
              <=> (i <= SpanValue(first.rowspan) /\ j <= SpanValue(first.colspan))

\* The table just read was exported
Exported == pc \in {"tables", "done"} /\ written # <<>>

\* C3: width invariant.  Every row handed to the writer for a table has the
\* length of the longest resolved row of that table.
WidthInvariant ==
  Exported =>
    \A i \in 1 .. Len(written) :
      /\ \A j \in 1 .. Len(rows) : Len(rows[j]) <= Len(written[i])
      /\ \E j \in 1 .. Len(rows) : Len(rows[j]) = Len(written[i])

\* A table whose resolved rows differ in length was exported
WidthInvariantWitness ==
  /\ Exported
  /\ \E i, j \in 1 .. Len(rows) : Len(rows[i]) < Len(rows[j])

\* C4: no truncation, padding at the tail only.  The rows handed to the
\* writer are the resolved rows in their order, each followed by zero or
\* more empty strings.
PadsAtTailOnly ==
  Exported =>
    /\ Len(written) = Len(rows)
    /\ \A i \in 1 .. Len(rows) :
         /\ Len(written[i]) >= Len(rows[i])
         /\ \A j \in 1 .. Len(written[i]) :
              written[i][j] = IF j <= Len(rows[i]) THEN rows[i][j] ELSE ""

\* A row of two values was exported with one empty string behind them
PadsAtTailOnlyWitness ==
  /\ Exported
  /\ \E i \in 1 .. Len(rows) :
       Len(rows[i]) = 2 /\ Len(written[i]) = 3 /\ written[i][3] = ""

\* C5: idempotence.  Padding the rows that were handed to the writer once
\* more changes none of them; for a table without rows nothing is padded
\* and nothing is written.
NormalizeIdempotent ==
  /\ Exported => Normalize(written) = written
  /\ (pc \in {"tables", "done"} /\ rows = <<>>) => written = <<>>

\* A table whose rows needed two or more empty strings was exported
NormalizeIdempotentWitness ==
  /\ Exported
  /\ \E i \in 1 .. Len(rows) : Len(written[i]) >= Len(rows[i]) + 2

\* C6: clamping.  A cell whose colspan is zero or negative adds exactly one
\* value to its row and moves the cursor by exactly 1; a cell whose rowspan
\* is zero or negative registers no pending span.
SpansClampedStep ==
  PlacesCell =>
    /\ SpanValue(cell.colspan) <= 0 =>
         (Len(out') = Len(out) + 1 /\ col' = col + 1)
    /\ SpanValue(cell.rowspan) <= 0 => pending' = pending
SpansClamped == [][SpansClampedStep]_vars

\* C7: an attribute int() rejects is read as 1.  The cell is placed as a
\* cell of one column (or one row) and the ValueError leaves no loop.
MalformedReadAsOneStep ==
  (pc = "cell" /\ col \notin DOMAIN pending
     /\ (Raises(cell.colspan) \/ Raises(cell.rowspan)))
  => LET cs == IF Raises(cell.colspan) THEN 1 ELSE SpanValue(cell.colspan)
         rs == IF Raises(cell.rowspan) THEN 1 ELSE SpanValue(cell.rowspan)
     IN /\ pc' # "raised"
        /\ out' = EmitCell(out, cell.text, cs)
        /\ pending' = RegisterPending(pending, col, cell.text, cs, rs)
        /\ col' = col + cs
MalformedReadAsOne == [][MalformedReadAsOneStep]_vars

\* The columns from the cursor on that line 125 found pending, one after the
\* other without a gap
TrailRun ==
  {k \in DOMAIN trailEntry.pending :
     k >= trailEntry.col /\ \A m \in trailEntry.col .. k : m \in DOMAIN trailEntry.pending}

\* C8: trailing drain.  When a row is kept, it is the row as it stood after
\* its last literal cell followed by the values of the pending spans at the
\* columns from the cursor on; each of these spans has one row less to fill
\* (it is gone when none is left), and no other span has changed.
TrailingDrain ==
  (pc = "rows" /\ trailEntry.set)
  => LET e == trailEntry
         n == Cardinality(TrailRun)
         r == rows[Len(rows)]
     IN /\ Len(r) = e.len + n
        /\ \A i \in 1 .. n : r[e.len + i] = e.pending[e.col + i - 1].val
        /\ col = e.col + n
        /\ \A k \in TrailRun :
             IF e.pending[k].rem = 1
               THEN k \notin DOMAIN pending
               ELSE /\ k \in DOMAIN pending
                    /\ pending[k] = [val |-> e.pending[k].val,
                                     rem |-> e.pending[k].rem - 1]
        /\ \A k \in (DOMAIN e.pending \cup DOMAIN pending) \ TrailRun :
             /\ k \in DOMAIN e.pending
             /\ k \in DOMAIN pending
             /\ pending[k] = e.pending[k]

\* A row was kept whose last column was filled by a span of an earlier row,
\* behind a literal cell
TrailingDrainWitness ==
  /\ pc = "rows"
  /\ trailEntry.set
  /\ trailEntry.len >= 1
  /\ TrailRun # {}
  /\ Len(rows) >= 2

\* C9: a row without cells is passed over.  It adds no row and leaves the
\* pending map as it was.
EmptyRowSkippedStep ==
  (pc = "rows" /\ pc' = "rows" /\ srcRows' = srcRows + 1)
  => (rows' = rows /\ pending' = pending)
EmptyRowSkipped == [][EmptyRowSkippedStep]_vars

\* A row without cells was read while a span was pending
EmptyRowSkippedWitness ==
  /\ pc = "rows"
  /\ srcRows > Len(rows)
  /\ rows # <<>>
  /\ pending # Empty

\* C10: pending-span bookkeeping.  Every entry of the pending map has at
\* least one row left.  A step at a column with a pending span emits its
\* value, takes one row from it, removes it when none is left and touches no
\* other entry; a step at a column without one emits no pending value and
\* changes no entry but those the cell itself registers.
ConsumeStep ==
  pc \in {"cell", "trail"} =>
    IF col \in DOMAIN pending
      THEN /\ out' = Append(out, pending[col].val)
           /\ col' = col + 1
           /\ IF pending[col].rem = 1
                THEN col \notin DOMAIN pending'
                ELSE /\ col \in DOMAIN pending'
                     /\ pending'[col] = [val |-> pending[col].val,
                                         rem |-> pending[col].rem - 1]
           /\ DOMAIN pending' \ {col} = DOMAIN pending \ {col}
           /\ \A k \in DOMAIN pending \ {col} : pending'[k] = pending[k]
      ELSE /\ Len(out') >= Len(out)
           /\ \A i \in 1 .. Len(out') :
                out'[i] = IF i <= Len(out) THEN out[i] ELSE cell.text
           /\ \A k \in DOMAIN pending :
                /\ k \in DOMAIN pending'
                /\ pending'[k] = pending[k] \/ pending'[k].val = cell.text
           /\ \A k \in DOMAIN pending' \ DOMAIN pending :
                pending'[k].val = cell.text
PendingBookkeeping ==
  /\ [](\A k \in DOMAIN pending : pending[k].rem >= 1)
  /\ [][ConsumeStep]_vars

\* A span of three rows has filled one row and has one left
PendingBookkeepingWitness ==
  \E k \in DOMAIN pending : pending[k].rem = 1 /\ pc \in {"cell", "trail"}

\* The texts of the cells of table t
TableTexts(t) == {Texts[t + 1][n] : n \in 1 .. Len(Texts[t + 1])}

\* The values of the rows in rs
RowValues(rs) == UNION {{rs[i][j] : j \in 1 .. Len(rs[i])} : i \in 1 .. Len(rs)}

\* C11: a fresh pending map per table.  While a table is read, every value
\* of its pending map, of the row in the making and of its resolved rows is
\* the text of a cell of this table: no span left pending by an earlier
\* table reaches it.
FreshPendingPerTable ==
  pc \in {"rows", "cell", "trail", "raised"} =>
    /\ \A k \in DOMAIN pending : pending[k].val \in TableTexts(idx)
    /\ RowValues(<<out>>) \subseteq TableTexts(idx)
    /\ RowValues(rows) \subseteq TableTexts(idx)

\* A table was left with a span pending, and a later table has a resolved row
FreshPendingPerTableWitness ==
  /\ carried
  /\ idx >= 1
  /\ pc = "rows"
  /\ rows # <<>>

\* The first rows a and b are equal, cell by cell, over their shared prefix
SameHeader(a, b) ==
  \A j \in 1 .. (IF Len(a) <= Len(b) THEN Len(a) ELSE Len(b)) : a[j] = b[j]

\* C12: header dedup.  Two tables were exported: the rows written for the
\* second one are its resolved rows without the first one exactly when that
\* first row equals the first row of the first table over the shared prefix
\* of columns, and all its resolved rows otherwise.
HeaderDedupPrecision ==
  (pc = "tables" /\ idx = 2 /\ DOMAIN all_rows = {0, 1})
  => /\ Len(written) = Len(rows) - (IF SameHeader(header0, rows[1]) THEN 1 ELSE 0)
     /\ all_rows[1] = Len(written)

\* C13: empty input.  With no table parser returns an empty mapping and has
\* written nothing.  A table without resolved rows gets no entry in all_rows
\* and no file; every entry of all_rows stands under the index its table has
\* in the document, counts at least one row, and its file holds that table.
EmptyInputNoEntry ==
  /\ (pc = "done" /\ idx = 0) => (all_rows = Empty /\ files = Empty)
  /\ \A k \in DOMAIN all_rows :
       /\ k \in 0 .. idx - 1
       /\ all_rows[k] >= 1
       /\ OutputFilename(k) \in DOMAIN files
       /\ files[OutputFilename(k)] = k
  /\ \A f \in DOMAIN files : files[f] \in DOMAIN all_rows
  /\ (pc \in {"tables", "done"} /\ idx >= 1 /\ rows = <<>>)
       => (idx - 1 \notin DOMAIN all_rows /\ written = <<>>)
  /\ (pc \in {"tables", "done"} /\ idx >= 1 /\ rows # <<>>)
       => idx - 1 \in DOMAIN all_rows

\* The first table had no rows and was passed over; the second one was
\* exported under index 1
EmptyInputNoEntryWitness ==
  /\ pc = "done"
  /\ idx = 2
  /\ DOMAIN all_rows = {1}
  /\ files[OutputFilename(1)] = 1

\* The resolved rows stand one to one with the <tr> elements with cells read
\* so far, and the exported table and its count have as many rows
RowPerCellRow ==
  /\ pc = "rows" => Len(rows) = cellRows
  /\ pc \in {"cell", "trail", "raised"} => Len(rows) = cellRows - 1
  /\ (pc \in {"tables", "done"} /\ idx >= 1 /\ rows # <<>>)
       => /\ Len(rows) = cellRows
          /\ Len(written) = cellRows
          /\ all_rows[idx - 1] = cellRows

\* rows changes only by the row just resolved going to its end, or by a new
\* table starting
RowAppendedStep ==
  rows' # rows =>
    \/ pc = "tables" /\ rows' = <<>>
    \/ pc \in {"cell", "trail"} /\ pc' = "rows" /\ rows' = Append(rows, out')

\* C14: the resolved table has one row for each <tr> with at least one cell,
\* in the order of the <tr> elements, and the count parser gives for the
\* table is that number of rows.
OneRowPerCellRow == []RowPerCellRow /\ [][RowAppendedStep]_vars

\* A table with a <tr> without cells between two <tr> with cells was exported
OneRowPerCellRowWitness ==
  /\ pc = "tables"
  /\ idx >= 1
  /\ srcRows = 3
  /\ cellRows = 2
  /\ idx - 1 \in DOMAIN all_rows
  /\ all_rows[idx - 1] = 2

\* C18: table resolution is total.  Whatever the span attributes of the
\* cells are, parser never leaves a table by raising: no run ends in the
\* ValueError of lines 116-117.
ParserNeverRaises == pc # "raised"

\* The cells of the current row that lines 116-123 have placed, by their
\* number in the table
PlacedCells == IF pc = "cell" THEN rowFirst .. tcells - 1 ELSE rowFirst .. tcells

\* Every placed cell of the current row had a colspan of 1 or more: its
\* text stands in out (a colspan below 1 writes nothing)
PlacedColspansPositive ==
  \A n \in PlacedCells : \E i \in 1 .. Len(out) : out[i] = CellText(idx, n)

\* C19: gap-free column assignment.  While a row is resolved and every cell
\* placed so far in it has colspan >= 1, the number of values in out is the
\* column cursor: out[k + 1] is the value of grid column k.
GapFreeColumns ==
  (pc \in {"cell", "trail"} /\ PlacedColspansPositive) => Len(out) = col

\* A row that took over a pending span at column 0 and then placed a cell
\* of colspan 2 stands at line 125
GapFreeColumnsWitness ==
  /\ pc = "trail"
  /\ PlacedColspansPositive
  /\ SpanValue(cell.colspan) = 2
  /\ Len(out) = 3
  /\ TextIndex(out[1]) < rowFirst
  /\ col = 3

\* A turn of the loops of lines 88-89 and 125-126 that takes the value of
\* the pending span at col into the row being resolved, row Len(rows): the
\* span was registered by a cell of rowspan origin[col].span in row
\* origin[col].row, and the row is one of the span - 1 rows after that one
SpanWithinRowsStep ==
  (/\ pc \in {"cell", "trail"}
   /\ col \in DOMAIN pending
   /\ out' = Append(out, pending[col].val))
  => /\ Len(rows) >= origin[col].row + 1
     /\ Len(rows) <= origin[col].row + origin[col].span - 1

\* C20: a pending span made by a cell of rowspan r in resolved row k gives
\* its value to rows k+1 .. k+r-1 at most and to no later row, whatever the
\* shape of the table.
SpanWithinRows == [][SpanWithinRowsStep]_vars

\* 1, 2, 3: the rule that matches an <img>, in the order the rules are tried
Rank(img) == IF img.scope = "icon" THEN 1 ELSE IF img.scope = "para" THEN 2 ELSE 3

\* The <img> elements of the cell that no <img> of the cell outranks
TopRanked(c) ==
  LET top(img) == \A j \in 1 .. Len(c) : Rank(c[j]) >= Rank(img)
  IN  SelectSeq(c, top)

SelectionPriorityStep ==
  /\ (epc = "select" /\ epc' = "text") => imgs' = TopRanked(cellImgs)
  /\ (epc = "text" /\ epc' = "cell") =>
       /\ cell_text' = CellTextOf(TopRanked(cellImgs), plain)
       /\ collected_images' = collected_images \o Refs(TopRanked(cellImgs))

\* C15: image selection goes by priority (icon span, then paragraph, then
\* any <img>) and stops at the first rule that matches: the cell text and
\* the image references are made of the images of that rule alone, an
\* <img> that only a later rule matches adds nothing to either.
SelectionPriority == [][SelectionPriorityStep]_vars

\* A cell with an <img> in an icon span and, before it, one in a paragraph,
\* both with alt and src, has been extracted: text and reference are those
\* of the icon image
SelectionPriorityWitness ==
  /\ epc = "cell"
  /\ ecells = 1
  /\ Len(cellImgs) = 2
  /\ cellImgs[1].scope = "para" /\ Strip(cellImgs[1].alt) = "Down"
  /\ HasAttr(cellImgs[1].src)
  /\ cellImgs[2].scope = "icon" /\ Strip(cellImgs[2].alt) = "Up"
  /\ Strip(cellImgs[2].src) = "s.png"
  /\ cell_text = "Up"
  /\ collected_images = <<[alt |-> "Up", src |-> "s.png"]>>

\* The alt values of the matched images that are not empty
UsableAlts(m) ==
  LET usable(img) == HasAttr(img.alt) /\ Strip(img.alt) # ""
      h == SelectSeq(m, usable)
  IN  [i \in 1 .. Len(h) |-> Strip(h[i].alt)]

\* C16: when images matched, the cell text is their alt values joined with
\* " | " in document order, and when none of them has a non-empty alt it is
\* the plain text of the cell.
AltTextOrPlain ==
  (epc = "cell" /\ ecells >= 1 /\ imgs # <<>>) =>
    cell_text = IF UsableAlts(imgs) = <<>> THEN plain ELSE Join(Alts(imgs))

\* One reference is added for each matched image with a non-empty alt
RefPerUsableAltStep ==
  (epc = "text" /\ epc' = "cell") =>
    Len(collected_images') = Len(collected_images) + Len(UsableAlts(imgs))

RefsNonEmpty ==
  \A i \in 1 .. Len(collected_images) :
    collected_images[i].alt # "" /\ collected_images[i].src # ""

\* C17: every image reference in collected_images has a non-empty alt and
\* a non-empty src, and each matched image with a non-empty alt has added
\* one reference.
CollectedRefsUsable == []RefsNonEmpty /\ [][RefPerUsableAltStep]_vars

\* C21: distinct tables, distinct output keys.  Whatever csv_path is, the
\* file named for an exported table still holds that table: no later table
\* of the same run was written to the same name.
DistinctOutputKeys ==
  \A k \in DOMAIN all_rows :
    /\ OutputFilename(k) \in DOMAIN files
    /\ files[OutputFilename(k)] = k

\* A request is sent again only after a 429, and any other outcome moves
\* the loop to the next image
RetryOnly429Step ==
  /\ (dpc = "attempt" /\ dpc' = "response" /\ attempt >= 1) => outcome = "429"
  /\ (dpc = "response" /\ outcome' # "429") => (dpc' = "image" /\ dimg' = dimg + 1)
  /\ (dpc = "response" /\ outcome' = "429") => (dpc' = "attempt" /\ dimg' = dimg)

DataRowOf(i) ==
  IF 0 \in DOMAIN game_rows /\ i + 1 <= game_rows[0]
    THEN [file |-> "stratagems", row |-> i + 1]
    ELSE [file |-> "mission",
          row |-> i + 1 - (IF 0 \in DOMAIN game_rows THEN game_rows[0] ELSE 0)]

\* C23: for every index of 0 .. total_rows - 1 get_stratagem_table_entry
\* gives a data row, not None and not a header row: the stratagems rows
\* first, then the mission rows, so no two indices read one row; and this
\* for every mapping the collector can return.
EntryForEveryIndex ==
  (gpc = "ready" /\ qindex >= 0) =>
    /\ entry.kind = "row"
    /\ entry.row >= 1
    /\ [file |-> entry.file, row |-> entry.row] = DataRowOf(qindex)

\* A step of the game loop that handles a key-down event
KeyDownStep == mpc = "events" /\ nbatch > 0 /\ event'.type = "KEYDOWN"

KeyInRangeStep ==
  KeyDownStep => (0 <= completed_indices /\ completed_indices < Len(normal_code))

\* C24: whenever the game loop handles a key-down event,
\* 0 <= completed_indices < len(normal_code), so that
\* normal_code[completed_indices] is in range, whatever stratagem was
\* selected and whatever keys came, several in one batch included.
KeyLookupInRange == [][KeyInRangeStep]_vars

\* The key the event of the step brings is the direction the code expects
\* next, by its name or by its W A S D letter
RightKey ==
  /\ completed_indices < Len(normal_code)
  /\ LET want == normal_code[completed_indices + 1]
         key == event'.key
     IN  \/ key = want
         \/ want = "up" /\ key = "w"
         \/ want = "left" /\ key = "a"
         \/ want = "down" /\ key = "s"
         \/ want = "right" /\ key = "d"

WrongKeyStep ==
  (KeyDownStep /\ ~ RightKey) =>
    UNCHANGED <<completed_indices, full_code, split_code, arrow_code, normal_code,
                update>>

\* C25: a wrong key changes nothing.  completed_indices, the stratagem and
\* its code stay as they are and update is not set; a key is accepted only
\* if it is the expected direction's name or its W A S D letter.
WrongKeyNoEffect == [][WrongKeyStep]_vars

\* A key that is no direction at all was the last event, with one key of
\* the code done before it: the progress is still 1 and update is clear
WrongKeyNoEffectWitness ==
  /\ mpc = "events"
  /\ event = [type |-> "KEYDOWN", key |-> "x"]
  /\ completed_indices = 1
  /\ Len(normal_code) = 2
  /\ ~ update

\* What an accepted key does: one position more, or, at the last position
\* of the code, a new stratagem with the progress at 0
Advance ==
  \/ /\ completed_indices + 1 < Len(normal_code)
     /\ completed_indices' = completed_indices + 1
     /\ ~ loaded'
     /\ UNCHANGED <<full_code, normal_code>>
  \/ /\ completed_indices + 1 = Len(normal_code)
     /\ completed_indices' = 0
     /\ loaded'

SequentialStep ==
  /\ (KeyDownStep /\ RightKey) => Advance
  /\ (completed_indices' # completed_indices \/ loaded')
       => (mpc = "init" \/ (KeyDownStep /\ RightKey))

\* C26: progress is sequential.  Each accepted key raises completed_indices
\* by one; the key that completes the code, and no other, loads a new
\* stratagem in the same step with completed_indices back at 0; otherwise
\* the progress never goes down and never skips a position.
SequentialProgress == [][SequentialStep]_vars

\* The second key of a code of two has just been accepted and a new
\* stratagem, with a code of two again, has been loaded
SequentialProgressWitness ==
  /\ mpc = "events"
  /\ loaded
  /\ event.type = "KEYDOWN"
  /\ completed_indices = 0
  /\ Len(normal_code) = 2

\* C27: for the current stratagem the arrows drawn (split_code), the keys
\* required (normal_code) and the glyphs (arrow_code) are equal in number.
CodeLengthsAgree ==
  mpc # "init" =>
    /\ Len(split_code) = Len(normal_code)
    /\ Len(arrow_code) = Len(normal_code)

RedrawStep ==
  /\ (completed_indices' # completed_indices \/ loaded') => update'
  /\ (mpc = "poll" /\ mpc' = "events") => ~ update
  /\ (update /\ ~ update') => mpc = "draw"
  /\ (mpc = "draw" /\ ~ update) => UNCHANGED update

\* C28: every change of what is displayed (an accepted key, a stratagem
\* newly loaded) sets update and is drawn before the next batch of events
\* is polled; the redraw clears update, and nothing is drawn while update
\* is clear.
RedrawBeforePoll == [][RedrawStep]_vars

\* The converter is run, and Inkscape looked up, for a name without a PNG
\* in the cache only, and never again for a name whose PNG a run has made
ConvertOnMissStep ==
  /\ \A n \in SvgNames :
       runs'[n] # runs[n] => (n \notin cache /\ n \notin made /\ runs'[n] = runs[n] + 1)
  /\ inkscape_path' # inkscape_path => (png'.name \notin cache /\ spc = "ready")

\* A path that is returned is that of a PNG in the cache; a PNG once in
\* the cache stays
ReturnedPngExists ==
  /\ png.kind = "path" => png.name \in cache
  /\ made \subseteq cache

TerminalRestored ==
  /\ kpc = "with" => (term = "raw" /\ original_settings \in TermSettings)
  /\ kpc = "exited" => (term = original_settings /\ term \in TermSettings)

\* The reader keeps the attributes the terminal has when it is made, and a
\* read with nothing typed comes back with None, the block going on
ReadNoneStep ==
  /\ (kpc = "new" /\ kpc' = "with") => original_settings' = term
  /\ (kpc = "with" /\ kpc' = "with" /\ stdin = <<>> /\ stdin' = <<>>)
       => (keyRead' = "None" /\ UNCHANGED <<term, original_settings, typed>>)

\* C30: a NonBlockingKeyReader used as a context manager restores the
\* terminal.  However the with-block is left (normally, by 'q', by an
\* exception) the Linux terminal attributes are set back to those captured
\* at construction, before raw mode was entered; and read_key gives None,
\* without blocking or raising, when no key is there.
KeyReaderRestores == []TerminalRestored /\ [][ReadNoneStep]_vars

\* A terminal that was not in its default mode is back in that mode after
\* the block was left by 'q', a read before that having given None
KeyReaderRestoresWitness ==
  /\ kpc = "exited"
  /\ left = "quit"
  /\ term = "noecho"
  /\ original_settings = "noecho"
  /\ typed = 1

====
